---- MODULE Spec2Model ----
(***************************************************************************)
(* Table extraction, quality scoring and ranking of                       *)
(* final_extraction.py (extract_docx_tables, extract_pdf_tables,          *)
(* extract_best_tables, main), the same run in the compact test.py, and   *)
(* the identifiers, type inference, DDL of one table and run of main of   *)
(* organize.py.                                                            *)
(*                                                                         *)
(* A cell text is a sequence of one-character strings.  A raw table is a   *)
(* sequence of rows, a row a sequence of cell texts (python-docx           *)
(* table.rows / row.cells / cell.text).  A quality score is a Python       *)
(* float in the source; here it is the exact rational <<num, den>> in      *)
(* lowest terms with den > 0.                                              *)
(***************************************************************************)
EXTENDS Integers, Sequences, FiniteSets, TLC

VARIABLES
    pc,           \* position in extract_best_tables / extract_docx_tables
    n_files,      \* len(docx_files): the .docx files listed (file k is named k)
    doc_i,        \* index (1-based) of docx_file in the for loop
    n_tables,     \* len(doc.tables) of the open document
    table_i,      \* i of "for i, table in enumerate(tables)" (0-based)
    n_read,       \* tables read so far over all documents (bounded by MaxTables)
    docx_tables,  \* all_tables of extract_docx_tables, then docx_tables
    pdf_tables,   \* the list extract_pdf_tables returned
    all_tables,   \* all_tables of extract_best_tables
    sorted_done,  \* whether all_tables.sort has run
    g_pc,         \* single-table run: position
    g_raw,        \* single-table run: the table read from the document
    g_data,       \* single-table run: data (the padded, cleaned rows)
    g_cand,       \* single-table run: the appended tuple, or <<>> when skipped
    g_again,      \* single-table run: data of a second pass over g_data
    l_pc,         \* clean_column_name on one label: position
    l_label,      \* clean_column_name: col
    l_c,          \* clean_column_name: c
    d_pc,         \* organize.py on one table: position
    d_raw,        \* organize.py: tbl, the table read from the document
    d_df,         \* organize.py: df
    d_ddl,        \* organize.py: col_ddls once written to the file
    m_files,      \* main of final_extraction.py: the files written, in order
    w_pc,         \* main of organize.py: position
    w_listing,    \* main of organize.py: os.listdir(SOURCE_DIR)
    w_docx_tables,\* main of organize.py: docx_tables, in insertion order
    w_fi,         \* write_per_table_ddl: position in docx_tables.items()
    w_ti,         \* write_per_table_ddl: position in tables
    w_out,        \* write_per_table_ddl: the files written, in order
    c_pc,         \* test.py beside final_extraction.py: state of the test.py run
    c_tables,     \* test.py beside final_extraction.py: tables of test.py
    c_ranked      \* test.py beside final_extraction.py: what test.py returns

vars == <<pc, n_files, doc_i, n_tables, table_i, n_read, docx_tables, pdf_tables,
          all_tables, sorted_done, g_pc, g_raw, g_data, g_cand, g_again,
          l_pc, l_label, l_c, d_pc, d_raw, d_df, d_ddl,
          m_files, w_pc, w_listing, w_docx_tables, w_fi, w_ti, w_out,
          c_pc, c_tables, c_ranked>>

pipe_vars == <<pc, n_files, doc_i, n_tables, table_i, n_read, docx_tables,
               pdf_tables, all_tables, sorted_done>>

grid_vars == <<g_pc, g_raw, g_data, g_cand, g_again>>

label_vars == <<l_pc, l_label, l_c>>

ddl_vars == <<d_pc, d_raw, d_df, d_ddl>>

write_vars == <<w_pc, w_listing, w_docx_tables, w_fi, w_ti, w_out>>

equiv_vars == <<c_pc, c_tables, c_ranked>>

----------------------------------------------------------------------------
(* Bounds of the model *)

MaxRows == 2      \* rows of a generated raw table
MaxRowLen == 2    \* cells of a generated raw row
MaxDocs == 2      \* .docx files in the directory
MaxTables == 3    \* tables read over all .docx files of one run
MaxPdf == 2       \* tables camelot returns
MaxLabelLen == 3  \* characters of a generated column label
MaxListing == 2   \* entries of the listed source directory

----------------------------------------------------------------------------
(* Text: str.strip, re.sub(r'\s+', ' ', .), str.replace *)

\* the characters \s and str.strip() treat as whitespace
Whitespace == {" ", "\n", "\r", "\t"}

IsSpace(ch) == ch \in Whitespace

RECURSIVE LStrip(_)
LStrip(s) ==
    IF s = <<>> THEN <<>>
    ELSE IF IsSpace(Head(s)) THEN LStrip(Tail(s)) ELSE s

RECURSIVE RStrip(_)
RStrip(s) ==
    IF s = <<>> THEN <<>>
    ELSE IF IsSpace(s[Len(s)]) THEN RStrip(SubSeq(s, 1, Len(s) - 1)) ELSE s

\* str.strip()
Strip(s) == RStrip(LStrip(s))

\* one pass replacing each pair of whitespace characters by a space
RECURSIVE CollapsePairsOnce(_)
CollapsePairsOnce(s) ==
    IF Len(s) < 2 THEN s
    ELSE IF IsSpace(s[1]) /\ IsSpace(s[2])
         THEN <<" ">> \o CollapsePairsOnce(SubSeq(s, 3, Len(s)))
         ELSE <<s[1]>> \o CollapsePairsOnce(Tail(s))

\* re.sub(r'\s+', ' ', s): every maximal run of whitespace becomes one space
RECURSIVE CollapseWhitespace(_)
CollapseWhitespace(s) ==
    IF s = <<>> THEN <<>>
    ELSE IF IsSpace(Head(s))
         THEN <<" ">> \o CollapseWhitespace(LStrip(s))
         ELSE <<Head(s)>> \o CollapseWhitespace(Tail(s))

\* s.replace(old, new) for a one-character old
RECURSIVE Replace(_, _, _)
Replace(s, old, new) ==
    IF s = <<>> THEN <<>>
    ELSE (IF Head(s) = old THEN new ELSE <<Head(s)>>) \o Replace(Tail(s), old, new)

\* a plausible bug: whitespace pairs replaced in one pass, not whole runs
CleanCellTextPairs(text) ==
    Replace(Replace(CollapsePairsOnce(Strip(text)), "\n", <<" ">>), "\r", <<>>)

\* lines 105-107: strip, normalise whitespace, replace line breaks
CleanCellText(text) ==
    Replace(Replace(CollapseWhitespace(Strip(text)), "\n", <<" ">>), "\r", <<>>)

\* truth value of cell.strip()
NonEmptyCell(cell) == Strip(cell) # <<>>

----------------------------------------------------------------------------
(* Exact rationals for the float arithmetic of the score *)

RECURSIVE GCD(_, _)
GCD(a, b) == IF b = 0 THEN a ELSE GCD(b, a % b)

Rat(n, d) == LET g == GCD(n, d) IN <<n \div g, d \div g>>

RatAdd(x, y) == Rat(x[1] * y[2] + y[1] * x[2], x[2] * y[2])

RatMul(x, y) == Rat(x[1] * y[1], x[2] * y[2])

RatLeq(x, y) == x[1] * y[2] <= y[1] * x[2]

RatLt(x, y) == x[1] * y[2] < y[1] * x[2]

----------------------------------------------------------------------------
(* One table of one document: extract_docx_tables, lines 89-149 *)

Max(a, b) == IF a >= b THEN a ELSE b

\* a plausible bug: the width of the first row instead of the widest row
first_row_cols(table) == IF table = <<>> THEN 0 ELSE Len(table[1])

\* lines 92-96: first pass, max_cols = max(max_cols, len(row.cells)) from 0
RECURSIVE max_cols(_)
max_cols(table) ==
    IF table = <<>> THEN 0
    ELSE Max(max_cols(SubSeq(table, 1, Len(table) - 1)), Len(table[Len(table)]))

\* lines 98-111: second pass, one row_data of max_cols cells per row
ExtractData(table) ==
    [r \in 1..Len(table) |->
        [c \in 1..max_cols(table) |->
            IF c <= Len(table[r]) THEN CleanCellText(table[r][c]) ELSE <<>>]]

\* any(cell.strip() for cell in row)
AnyNonEmpty(row) == \E c \in 1..Len(row) : NonEmptyCell(row[c])

\* a pandas column label: a str taken from a cell, or an int of a RangeIndex;
\* text is str(label)
StrLabel(text) == [is_int |-> FALSE, text |-> text]

Digits == <<"0", "1", "2", "3", "4", "5", "6", "7", "8", "9">>

RECURSIVE IntText(_)
IntText(n) == IF n < 10 THEN <<Digits[n + 1]>> ELSE IntText(n \div 10) \o <<Digits[(n % 10) + 1]>>

IntLabel(n) == [is_int |-> TRUE, text |-> IntText(n)]

\* a plausible bug: the first row promoted whatever it holds (organize.py line 49)
DataFrameAlwaysHeader(data) ==
    [columns |-> [c \in 1..Len(data[1]) |-> StrLabel(data[1][c])],
     rows |-> Tail(data)]

\* a plausible bug: the header row promoted and also kept as a data row
DataFrameKeepAll(data) ==
    IF AnyNonEmpty(data[1])
    THEN [columns |-> [c \in 1..Len(data[1]) |-> StrLabel(data[1][c])],
          rows |-> data]
    ELSE [columns |-> [c \in 1..Len(data[1]) |-> IntLabel(c - 1)],
          rows |-> data]

\* lines 115-119: pd.DataFrame(data[1:], columns=data[0]) or pd.DataFrame(data),
\* whose columns are then RangeIndex(0 .. width-1)
DataFrame(data) ==
    IF AnyNonEmpty(data[1])
    THEN [columns |-> [c \in 1..Len(data[1]) |-> StrLabel(data[1][c])],
          rows |-> Tail(data)]
    ELSE [columns |-> [c \in 1..Len(data[1]) |-> IntLabel(c - 1)],
          rows |-> data]

\* df.shape
Shape(df) == <<Len(df.rows), Len(df.columns)>>

\* sum(1 for row in data for cell in row if not cell.strip())
RECURSIVE CountEmptyCells(_)
CountEmptyCells(data) ==
    IF data = <<>> THEN 0
    ELSE Cardinality({c \in 1..Len(Head(data)) : ~NonEmptyCell(Head(data)[c])})
         + CountEmptyCells(Tail(data))

\* sum(1 for row in data if any(cell.strip() for cell in row))
RECURSIVE CountNonEmptyRows(_)
CountNonEmptyRows(data) ==
    IF data = <<>> THEN 0
    ELSE (IF AnyNonEmpty(Head(data)) THEN 1 ELSE 0) + CountNonEmptyRows(Tail(data))

\* a plausible bug: the structure bonus added unweighted
quality_score_unweighted_bonus(data, mc) ==
    LET total_cells == Len(data) * mc
        empty_cells == CountEmptyCells(data)
        non_empty_rows == CountNonEmptyRows(data)
        completeness == IF total_cells > 0
                        THEN RatMul(Rat(total_cells - empty_cells, total_cells), Rat(100, 1))
                        ELSE Rat(0, 1)
        row_density == IF data # <<>>
                       THEN RatMul(Rat(non_empty_rows, Len(data)), Rat(100, 1))
                       ELSE Rat(0, 1)
        column_consistency == Rat((IF mc >= 2 THEN 1 ELSE 0) * 20, 1)
    IN  RatAdd(RatAdd(RatMul(completeness, Rat(6, 10)), RatMul(row_density, Rat(3, 10))),
               column_consistency)

\* lines 122-131: the enhanced quality score
quality_score(data, mc) ==
    LET total_cells == Len(data) * mc
        empty_cells == CountEmptyCells(data)
        non_empty_rows == CountNonEmptyRows(data)
        completeness == IF total_cells > 0
                        THEN RatMul(Rat(total_cells - empty_cells, total_cells), Rat(100, 1))
                        ELSE Rat(0, 1)
        row_density == IF data # <<>>
                       THEN RatMul(Rat(non_empty_rows, Len(data)), Rat(100, 1))
                       ELSE Rat(0, 1)
        column_consistency == Rat((IF mc >= 2 THEN 1 ELSE 0) * 20, 1)
    IN  RatAdd(RatAdd(RatMul(completeness, Rat(6, 10)), RatMul(row_density, Rat(3, 10))),
               RatMul(column_consistency, Rat(1, 10)))

\* lines 137-146: the table-like object
DocxTableWrapper(df, quality, raw_data, file_name, table_idx) ==
    [df |-> df, accuracy |-> quality, shape |-> Shape(df), raw_data |-> raw_data,
     source_file |-> file_name, table_index |-> table_idx]

\* a plausible bug: a single row accepted (len(data) > 0)
TableEntriesAnyRow(data, mc, i, docx_file) ==
    IF data # <<>> /\ Len(data) > 0
    THEN LET df == DataFrame(data)
             q == quality_score(data, mc)
         IN  << <<"docx", i, DocxTableWrapper(df, q, data, docx_file, i), q, docx_file>> >>
    ELSE <<>>

\* lines 113-149: what one table appends to all_tables: one tuple, or nothing
\* when it is skipped (insufficient data)
TableEntries(data, mc, i, docx_file) ==
    IF data # <<>> /\ Len(data) > 1
    THEN LET df == DataFrame(data)
             q == quality_score(data, mc)
         IN  << <<"docx", i, DocxTableWrapper(df, q, data, docx_file, i), q, docx_file>> >>
    ELSE <<>>

----------------------------------------------------------------------------
(* The tables a document can hold *)

\* cell texts: empty, whitespace only, and text with whitespace around and inside
CellTexts ==
    { <<>>,
      <<"\r", "\n">>,
      <<" ", "x", " ", "\n", " ", "y", "\t">> }

RawRows == UNION { [1..n -> CellTexts] : n \in 0..MaxRowLen }

\* [["Name","Age"],["Alice","30"],["Bob","25"]]
ExampleHeaderTable ==
    << << <<"N","a","m","e">>, <<"A","g","e">> >>,
       << <<"A","l","i","c","e">>, <<"3","0">> >>,
       << <<"B","o","b">>, <<"2","5">> >> >>

\* [["",""],["Alice","30"]]
ExampleEmptyFirstRowTable ==
    << << <<>>, <<>> >>,
       << <<"A","l","i","c","e">>, <<"3","0">> >> >>

RawTables ==
    UNION { [1..n -> RawRows] : n \in 0..MaxRows }
    \cup {ExampleHeaderTable, ExampleEmptyFirstRowTable}

----------------------------------------------------------------------------
(* One table on its own: the table is read, its data extracted, the table   *)
(* scored and wrapped, and the extraction applied once more to the data     *)

PipeIdle ==
    /\ pc = "idle"
    /\ n_files = 0
    /\ doc_i = 0
    /\ n_tables = 0
    /\ table_i = 0
    /\ n_read = 0
    /\ docx_tables = <<>>
    /\ pdf_tables = <<>>
    /\ all_tables = <<>>
    /\ sorted_done = FALSE

LabelIdle ==
    /\ l_pc = "idle"
    /\ l_label = <<>>
    /\ l_c = <<>>

NoFrame == [columns |-> <<>>, dtypes |-> <<>>, rows |-> <<>>]

DdlIdle ==
    /\ d_pc = "idle"
    /\ d_raw = <<>>
    /\ d_df = NoFrame
    /\ d_ddl = <<>>

WriteIdle ==
    /\ m_files = <<>>
    /\ w_pc = "idle"
    /\ w_listing = <<>>
    /\ w_docx_tables = <<>>
    /\ w_fi = 0
    /\ w_ti = 0
    /\ w_out = <<>>

EquivIdle ==
    /\ c_pc = "idle"
    /\ c_tables = <<>>
    /\ c_ranked = <<>>

InitGrid ==
    /\ PipeIdle
    /\ LabelIdle
    /\ DdlIdle
    /\ WriteIdle
    /\ EquivIdle
    /\ g_pc = "read"
    /\ g_raw \in RawTables
    /\ g_data = <<>>
    /\ g_cand = <<>>
    /\ g_again = <<>>

\* lines 91-111
GridExtract ==
    /\ g_pc = "read"
    /\ g_data' = ExtractData(g_raw)
    /\ g_pc' = "extracted"
    /\ UNCHANGED <<g_raw, g_cand, g_again, pipe_vars, label_vars, ddl_vars,
                   m_files, write_vars, equiv_vars>>

\* lines 113-149
GridScore ==
    /\ g_pc = "extracted"
    /\ g_cand' = TableEntries(g_data, max_cols(g_raw), 0, 1)
    /\ g_pc' = "scored"
    /\ UNCHANGED <<g_raw, g_data, g_again, pipe_vars, label_vars, ddl_vars,
                   m_files, write_vars, equiv_vars>>

\* lines 91-111 on the data of the first pass
GridExtractAgain ==
    /\ g_pc = "scored"
    /\ g_again' = ExtractData(g_data)
    /\ g_pc' = "done"
    /\ UNCHANGED <<g_raw, g_data, g_cand, pipe_vars, label_vars, ddl_vars,
                   m_files, write_vars, equiv_vars>>

NextGrid == GridExtract \/ GridScore \/ GridExtractAgain

SpecGrid == InitGrid /\ [][NextGrid]_vars

----------------------------------------------------------------------------
(* Ranking: extract_best_tables, lines 170-181 *)

\* x[3] of a tuple of all_tables (tuples are 1-based here)
Quality(x) == x[4]

\* a plausible bug: an equal key placed ahead of the ones already there
RECURSIVE InsertDescUnstable(_, _)
InsertDescUnstable(sorted, x) ==
    IF sorted = <<>> THEN <<x>>
    ELSE IF RatLt(Quality(x), Quality(Head(sorted)))
         THEN <<Head(sorted)>> \o InsertDescUnstable(Tail(sorted), x)
         ELSE <<x>> \o sorted

\* x placed behind every element whose key is >= its own
RECURSIVE InsertDesc(_, _)
InsertDesc(sorted, x) ==
    IF sorted = <<>> THEN <<x>>
    ELSE IF RatLeq(Quality(x), Quality(Head(sorted)))
         THEN <<Head(sorted)>> \o InsertDesc(Tail(sorted), x)
         ELSE <<x>> \o sorted

\* a plausible bug: reverse=True left out
RECURSIVE SortAscending(_)
SortAscending(tables) ==
    LET InsertAsc(sorted, x) ==
            LET before == {k \in 1..Len(sorted) : RatLeq(Quality(sorted[k]), Quality(x))}
                n == Cardinality(before)
            IN  SubSeq(sorted, 1, n) \o <<x>> \o SubSeq(sorted, n + 1, Len(sorted))
    IN  IF tables = <<>> THEN <<>>
        ELSE InsertAsc(SortAscending(SubSeq(tables, 1, Len(tables) - 1)), tables[Len(tables)])

\* a plausible bug: an unstable sort
RECURSIVE SortUnstable(_)
SortUnstable(tables) ==
    IF tables = <<>> THEN <<>>
    ELSE InsertDescUnstable(SortUnstable(SubSeq(tables, 1, Len(tables) - 1)),
                            tables[Len(tables)])

\* line 181: all_tables.sort(key=lambda x: x[3], reverse=True), a stable sort
RECURSIVE SortByQuality(_)
SortByQuality(tables) ==
    IF tables = <<>> THEN <<>>
    ELSE InsertDesc(SortByQuality(SubSeq(tables, 1, Len(tables) - 1)),
                    tables[Len(tables)])

----------------------------------------------------------------------------
(* A run of extract_best_tables *)

\* the tables the documents of a run hold
PipeTables ==
    LET X == <<"x">>
        E == <<>>
    IN  { << <<X, X>>, <<X, X>> >>,    \* full, two columns
          << <<E, E>>, <<X, X>> >>,    \* empty first row
          << <<E, E>>, <<E, E>> >>,    \* empty
          << <<>>, <<>> >>,            \* two rows without cells
          << <<X, X>> >>,              \* a single row
          << >> }                      \* no row

\* table.accuracy of the tables camelot returns, in percent
PdfAccuracies == { <<92, 1>>, <<100, 1>> }

GridIdle ==
    /\ g_pc = "idle"
    /\ g_raw = <<>>
    /\ g_data = <<>>
    /\ g_cand = <<>>
    /\ g_again = <<>>

Init ==
    /\ pc = "start"
    /\ n_files = 0
    /\ doc_i = 0
    /\ n_tables = 0
    /\ table_i = 0
    /\ n_read = 0
    /\ docx_tables = <<>>
    /\ pdf_tables = <<>>
    /\ all_tables = <<>>
    /\ sorted_done = FALSE
    /\ GridIdle
    /\ LabelIdle
    /\ DdlIdle
    /\ WriteIdle
    /\ EquivIdle

\* the for loop over docx_files goes on to the next file, or the function returns
NextDocument ==
    /\ n_tables' = 0
    /\ table_i' = 0
    /\ IF doc_i < n_files
       THEN doc_i' = doc_i + 1 /\ pc' = "open"
       ELSE doc_i' = doc_i /\ pc' = "pdf"

\* lines 164, 70-78: the .docx files are listed
ListDocxFiles ==
    /\ pc = "start"
    /\ \E n \in 0..MaxDocs :
          /\ n_files' = n
          /\ IF n = 0
             THEN pc' = "pdf" /\ doc_i' = 0
             ELSE pc' = "open" /\ doc_i' = 1
    /\ UNCHANGED <<n_tables, table_i, n_read, docx_tables, pdf_tables, all_tables,
                   sorted_done, grid_vars, label_vars, ddl_vars,
                   m_files, write_vars, equiv_vars>>

\* lines 84-87: Document(docx_file) opens a document of n tables
OpenDocument ==
    /\ pc = "open"
    /\ \E n \in 0..(MaxTables - n_read) :
          IF n = 0
          THEN NextDocument
          ELSE /\ n_tables' = n
               /\ table_i' = 0
               /\ pc' = "tables"
               /\ doc_i' = doc_i
    /\ UNCHANGED <<n_files, n_read, docx_tables, pdf_tables, all_tables, sorted_done,
                   grid_vars, label_vars, ddl_vars,
                   m_files, write_vars, equiv_vars>>

\* lines 84, 151-153: Document(docx_file) raises
OpenDocumentFails ==
    /\ pc = "open"
    /\ NextDocument
    /\ UNCHANGED <<n_files, n_read, docx_tables, pdf_tables, all_tables, sorted_done,
                   grid_vars, label_vars, ddl_vars,
                   m_files, write_vars, equiv_vars>>

\* lines 89-149: one pass of the loop over the tables of the document
ProcessTable ==
    /\ pc = "tables"
    /\ table_i < n_tables
    /\ \E table \in PipeTables :
          docx_tables' = docx_tables \o
              TableEntries(ExtractData(table), max_cols(table), table_i, doc_i)
    /\ n_read' = n_read + 1
    /\ IF table_i + 1 < n_tables
       THEN /\ table_i' = table_i + 1
            /\ UNCHANGED <<pc, doc_i, n_tables>>
       ELSE NextDocument
    /\ UNCHANGED <<n_files, pdf_tables, all_tables, sorted_done, grid_vars, label_vars, ddl_vars,
                   m_files, write_vars, equiv_vars>>

\* lines 89-111, 151-153: reading a table raises, the rest of the document is lost
ProcessTableRaises ==
    /\ pc = "tables"
    /\ table_i < n_tables
    /\ n_read' = n_read + 1
    /\ NextDocument
    /\ UNCHANGED <<n_files, docx_tables, pdf_tables, all_tables, sorted_done, grid_vars, label_vars, ddl_vars,
                   m_files, write_vars, equiv_vars>>

\* lines 168, 33-39: no PDF file, or no camelot
PdfUnavailable ==
    /\ pc = "pdf"
    /\ pdf_tables' = <<>>
    /\ pc' = "combine"
    /\ UNCHANGED <<n_files, doc_i, n_tables, table_i, n_read, docx_tables, all_tables,
                   sorted_done, grid_vars, label_vars, ddl_vars,
                   m_files, write_vars, equiv_vars>>

\* lines 168, 43-57: camelot returns n tables
ExtractPdfTables ==
    /\ pc = "pdf"
    /\ \E n \in 0..MaxPdf : \E acc \in [1..n -> PdfAccuracies] :
          pdf_tables' = [k \in 1..n |-> <<"pdf", k - 1, [accuracy |-> acc[k]], acc[k]>>]
    /\ pc' = "combine"
    /\ UNCHANGED <<n_files, doc_i, n_tables, table_i, n_read, docx_tables, all_tables,
                   sorted_done, grid_vars, label_vars, ddl_vars,
                   m_files, write_vars, equiv_vars>>

\* lines 168, 59-66: camelot raises
PdfRaises ==
    /\ pc = "pdf"
    /\ pdf_tables' = <<>>
    /\ pc' = "combine"
    /\ UNCHANGED <<n_files, doc_i, n_tables, table_i, n_read, docx_tables, all_tables,
                   sorted_done, grid_vars, label_vars, ddl_vars,
                   m_files, write_vars, equiv_vars>>

\* a plausible bug: the ranking run before the PDF extraction
RankTablesBeforePdf ==
    /\ pc = "pdf"
    /\ IF docx_tables = <<>>
       THEN all_tables' = <<>> /\ sorted_done' = FALSE
       ELSE all_tables' = SortByQuality(docx_tables) /\ sorted_done' = TRUE
    /\ pc' = "done"
    /\ UNCHANGED <<n_files, doc_i, n_tables, table_i, n_read, docx_tables, pdf_tables,
                   grid_vars, label_vars, ddl_vars,
                   m_files, write_vars, equiv_vars>>

\* lines 171-202: the lists are combined and, unless empty, sorted
RankTables ==
    /\ pc = "combine"
    /\ IF docx_tables \o pdf_tables = <<>>
       THEN all_tables' = <<>> /\ sorted_done' = FALSE
       ELSE all_tables' = SortByQuality(docx_tables \o pdf_tables) /\ sorted_done' = TRUE
    /\ pc' = "done"
    /\ UNCHANGED <<n_files, doc_i, n_tables, table_i, n_read, docx_tables, pdf_tables,
                   grid_vars, label_vars, ddl_vars,
                   m_files, write_vars, equiv_vars>>

\* lines 204-488: create_final_ddl() returns the same two lists of literal
\* statements on every call; lines 529-575: the header, the five table
\* statements and the index statements written to final_tables.sql
FinalTablesText ==
    <<"tables header", "table1_ddl", "table2_ddl", "table3_ddl", "table4_ddl",
      "table5_ddl", "indexes">>

\* lines 579-589: the header and the four view statements of final_views.sql
FinalViewsText ==
    <<"views header", "view1_ddl", "view2_ddl", "view3_ddl", "view4_ddl">>

\* a plausible bug: the tables file written only when a table was found
WriteFinalTablesIfAny ==
    /\ pc = "done"
    /\ m_files' = IF all_tables # <<>>
                  THEN Append(m_files, [name |-> "final_tables.sql",
                                        text |-> FinalTablesText])
                  ELSE m_files
    /\ pc' = "tables_written"
    /\ UNCHANGED <<n_files, doc_i, n_tables, table_i, n_read, docx_tables, pdf_tables,
                   all_tables, sorted_done, grid_vars, label_vars, ddl_vars, write_vars, equiv_vars>>

\* main, lines 493-575: after extract_best_tables returned, whatever it
\* returned, final_tables.sql is opened for writing and written
WriteFinalTables ==
    /\ pc = "done"
    /\ m_files' = Append(m_files, [name |-> "final_tables.sql",
                                   text |-> FinalTablesText])
    /\ pc' = "tables_written"
    /\ UNCHANGED <<n_files, doc_i, n_tables, table_i, n_read, docx_tables, pdf_tables,
                   all_tables, sorted_done, grid_vars, label_vars, ddl_vars, write_vars, equiv_vars>>

\* main, lines 577-589: final_views.sql is opened for writing and written
WriteFinalViews ==
    /\ pc = "tables_written"
    /\ m_files' = Append(m_files, [name |-> "final_views.sql",
                                   text |-> FinalViewsText])
    /\ pc' = "finished"
    /\ UNCHANGED <<n_files, doc_i, n_tables, table_i, n_read, docx_tables, pdf_tables,
                   all_tables, sorted_done, grid_vars, label_vars, ddl_vars, write_vars, equiv_vars>>

Next ==
    \/ ListDocxFiles
    \/ OpenDocument
    \/ OpenDocumentFails
    \/ ProcessTable
    \/ ProcessTableRaises
    \/ PdfUnavailable
    \/ ExtractPdfTables
    \/ PdfRaises
    \/ RankTables
    \/ WriteFinalTables
    \/ WriteFinalViews

Spec == Init /\ [][Next]_vars

----------------------------------------------------------------------------
(* A run of extract_best_tables of test.py, the compact pipeline: no call is *)
(* guarded by try/except, an exception ends the run (pc = "crashed")         *)

\* test.py line 38: re.sub(r'\s+', ' ', c.text.strip().replace('\n', ' '))
CompactCellText(text) == CollapseWhitespace(Replace(Strip(text), "\n", <<" ">>))

\* test.py lines 36-39: the cleaned cells of each row, padded to max_cols
CompactData(t) ==
    [r \in 1..Len(t) |->
        [c \in 1..max_cols(t) |->
            IF c <= Len(t[r]) THEN CompactCellText(t[r][c]) ELSE <<>>]]

\* test.py line 41: the first row is the header when any(data[0])
CompactDataFrame(data) ==
    IF \E c \in 1..Len(data[1]) : data[1][c] # <<>>
    THEN [columns |-> [c \in 1..Len(data[1]) |-> StrLabel(data[1][c])],
          rows |-> Tail(data)]
    ELSE [columns |-> [c \in 1..Len(data[1]) |-> IntLabel(c - 1)],
          rows |-> data]

\* test.py lines 42-45, of data with total > 0
CompactQuality(data, mc) ==
    LET total == Len(data) * mc
        empty == Cardinality({rc \in (1..Len(data)) \X (1..mc) :
                                 data[rc[1]][rc[2]] = <<>>})
        non_empty_rows == Cardinality({r \in 1..Len(data) :
                                 \E c \in 1..mc : data[r][c] # <<>>})
    IN  RatAdd(RatAdd(RatMul(Rat(total - empty, total), Rat(60, 1)),
                      RatMul(Rat(non_empty_rows, Len(data)), Rat(30, 1))),
               RatMul(Rat((IF mc >= 2 THEN 1 ELSE 0) * 20, 1), Rat(1, 10)))

\* test.py line 36: max() of no row raises ValueError; line 45: total = 0
\* raises ZeroDivisionError
CompactTableRaises(t) == t = <<>> \/ (Len(t) > 1 /\ max_cols(t) = 0)

\* test.py lines 40-46: what one table appends to tables
CompactEntries(t, i, file) ==
    LET data == CompactData(t)
        q == CompactQuality(data, max_cols(t))
        df == CompactDataFrame(data)
    IN  IF Len(data) > 1
        THEN << <<"docx", i,
                  [df |-> df, accuracy |-> q, shape |-> Shape(df), raw_data |-> data,
                   source_file |-> file, table_index |-> i],
                  q, file>> >>
        ELSE <<>>

\* test.py lines 33-35: the for loop over files goes on, or the function returns
CompactNextFile ==
    /\ n_tables' = 0
    /\ table_i' = 0
    /\ IF doc_i < n_files
       THEN doc_i' = doc_i + 1 /\ pc' = "open"
       ELSE doc_i' = doc_i /\ pc' = "pdf"

\* test.py lines 50, 31: the .docx files are listed
CompactListFiles ==
    /\ pc = "start"
    /\ \E n \in 0..MaxDocs :
          /\ n_files' = n
          /\ IF n = 0
             THEN pc' = "pdf" /\ doc_i' = 0
             ELSE pc' = "open" /\ doc_i' = 1
    /\ UNCHANGED <<n_tables, table_i, n_read, docx_tables, pdf_tables, all_tables,
                   sorted_done, grid_vars, label_vars, ddl_vars,
                   m_files, write_vars, equiv_vars>>

\* test.py lines 34-35: Document(file) opens a document of n tables
CompactOpen ==
    /\ pc = "open"
    /\ \E n \in 0..(MaxTables - n_read) :
          IF n = 0
          THEN CompactNextFile
          ELSE /\ n_tables' = n
               /\ table_i' = 0
               /\ pc' = "tables"
               /\ doc_i' = doc_i
    /\ UNCHANGED <<n_files, n_read, docx_tables, pdf_tables, all_tables, sorted_done,
                   grid_vars, label_vars, ddl_vars,
                   m_files, write_vars, equiv_vars>>

\* test.py line 34: Document(file) raises, and nothing catches it
CompactOpenRaises ==
    /\ pc = "open"
    /\ pc' = "crashed"
    /\ UNCHANGED <<n_files, doc_i, n_tables, table_i, n_read, docx_tables, pdf_tables,
                   all_tables, sorted_done, grid_vars, label_vars, ddl_vars,
                   m_files, write_vars, equiv_vars>>

\* test.py lines 35-46: one pass of the loop over the tables of the document
CompactTable ==
    /\ pc = "tables"
    /\ table_i < n_tables
    /\ \E t \in PipeTables :
          IF CompactTableRaises(t)
          THEN /\ pc' = "crashed"
               /\ UNCHANGED <<doc_i, n_tables, table_i, docx_tables>>
          ELSE /\ docx_tables' = docx_tables \o CompactEntries(t, table_i, doc_i)
               /\ IF table_i + 1 < n_tables
                  THEN /\ table_i' = table_i + 1
                       /\ UNCHANGED <<pc, doc_i, n_tables>>
                  ELSE CompactNextFile
    /\ n_read' = n_read + 1
    /\ UNCHANGED <<n_files, pdf_tables, all_tables, sorted_done, grid_vars, label_vars,
                   ddl_vars,
                   m_files, write_vars, equiv_vars>>

\* test.py lines 51, 25-26: no PDF file, or no camelot
CompactPdfUnavailable ==
    /\ pc = "pdf"
    /\ pdf_tables' = <<>>
    /\ pc' = "combine"
    /\ UNCHANGED <<n_files, doc_i, n_tables, table_i, n_read, docx_tables, all_tables,
                   sorted_done, grid_vars, label_vars, ddl_vars,
                   m_files, write_vars, equiv_vars>>

\* test.py lines 27-28: camelot returns n tables
CompactPdfTables ==
    /\ pc = "pdf"
    /\ \E n \in 0..MaxPdf : \E acc \in [1..n -> PdfAccuracies] :
          pdf_tables' = [k \in 1..n |-> <<"pdf", k - 1, [accuracy |-> acc[k]], acc[k]>>]
    /\ pc' = "combine"
    /\ UNCHANGED <<n_files, doc_i, n_tables, table_i, n_read, docx_tables, all_tables,
                   sorted_done, grid_vars, label_vars, ddl_vars,
                   m_files, write_vars, equiv_vars>>

\* test.py line 27: camelot.read_pdf raises, and nothing catches it
CompactPdfRaises ==
    /\ pc = "pdf"
    /\ pc' = "crashed"
    /\ UNCHANGED <<n_files, doc_i, n_tables, table_i, n_read, docx_tables, pdf_tables,
                   all_tables, sorted_done, grid_vars, label_vars, ddl_vars,
                   m_files, write_vars, equiv_vars>>

\* test.py lines 52-53: sorted(all_tables, key=lambda x: x[3], reverse=True)
CompactRank ==
    /\ pc = "combine"
    /\ all_tables' = SortByQuality(docx_tables \o pdf_tables)
    /\ sorted_done' = TRUE
    /\ pc' = "done"
    /\ UNCHANGED <<n_files, doc_i, n_tables, table_i, n_read, docx_tables, pdf_tables,
                   grid_vars, label_vars, ddl_vars,
                   m_files, write_vars, equiv_vars>>

InitCompact ==
    /\ pc = "start"
    /\ n_files = 0
    /\ doc_i = 0
    /\ n_tables = 0
    /\ table_i = 0
    /\ n_read = 0
    /\ docx_tables = <<>>
    /\ pdf_tables = <<>>
    /\ all_tables = <<>>
    /\ sorted_done = FALSE
    /\ GridIdle
    /\ LabelIdle
    /\ DdlIdle
    /\ WriteIdle
    /\ EquivIdle

NextCompact ==
    \/ CompactListFiles
    \/ CompactOpen
    \/ CompactOpenRaises
    \/ CompactTable
    \/ CompactPdfUnavailable
    \/ CompactPdfTables
    \/ CompactPdfRaises
    \/ CompactRank

SpecCompact == InitCompact /\ [][NextCompact]_vars

----------------------------------------------------------------------------
(* extract_best_tables of final_extraction.py and of test.py side by side on *)
(* the same directory of .docx files, without a PDF file: each step feeds    *)
(* the same input to both; pc, docx_tables and all_tables are those of       *)
(* final_extraction.py, c_pc, c_tables and c_ranked those of test.py         *)

\* what a run returns, as (source kind, ordinal index, quality score, file)
Ranking(tables) ==
    [k \in 1..Len(tables) |->
        <<tables[k][1], tables[k][2], tables[k][4],
          IF Len(tables[k]) > 4 THEN tables[k][5] ELSE 0>>]

InitEquiv ==
    /\ pc = "start"
    /\ n_files = 0
    /\ doc_i = 0
    /\ n_tables = 0
    /\ table_i = 0
    /\ n_read = 0
    /\ docx_tables = <<>>
    /\ pdf_tables = <<>>
    /\ all_tables = <<>>
    /\ sorted_done = FALSE
    /\ GridIdle
    /\ LabelIdle
    /\ DdlIdle
    /\ WriteIdle
    /\ c_pc = "running"
    /\ c_tables = <<>>
    /\ c_ranked = <<>>

\* final_extraction.py line 70, test.py line 31: the same listing, the same
\* filter
EquivListFiles ==
    /\ pc = "start"
    /\ \E n \in 0..MaxDocs :
          /\ n_files' = n
          /\ IF n = 0
             THEN pc' = "pdf" /\ doc_i' = 0
             ELSE pc' = "open" /\ doc_i' = 1
    /\ UNCHANGED <<n_tables, table_i, n_read, docx_tables, pdf_tables, all_tables,
                   sorted_done, grid_vars, label_vars, ddl_vars, m_files, write_vars,
                   equiv_vars>>

\* final_extraction.py lines 84-87, test.py lines 34-35: the document opens
EquivOpen ==
    /\ pc = "open"
    /\ \E n \in 0..(MaxTables - n_read) :
          IF n = 0
          THEN NextDocument
          ELSE /\ n_tables' = n
               /\ table_i' = 0
               /\ pc' = "tables"
               /\ doc_i' = doc_i
    /\ UNCHANGED <<n_files, n_read, docx_tables, pdf_tables, all_tables, sorted_done,
                   grid_vars, label_vars, ddl_vars, m_files, write_vars, equiv_vars>>

\* Document(file) raises: final_extraction.py lines 151-153 go on to the next
\* file, test.py line 34 lets the exception out
EquivOpenRaises ==
    /\ pc = "open"
    /\ NextDocument
    /\ c_pc' = IF c_pc = "running" THEN "crashed" ELSE c_pc
    /\ UNCHANGED <<n_files, n_read, docx_tables, pdf_tables, all_tables, sorted_done,
                   grid_vars, label_vars, ddl_vars, m_files, write_vars,
                   c_tables, c_ranked>>

\* final_extraction.py lines 89-149, test.py lines 35-46: the same table read
\* by both
EquivTable ==
    /\ pc = "tables"
    /\ table_i < n_tables
    /\ \E t \in PipeTables :
          /\ docx_tables' = docx_tables \o
                TableEntries(ExtractData(t), max_cols(t), table_i, doc_i)
          /\ IF c_pc # "running"
             THEN UNCHANGED <<c_pc, c_tables>>
             ELSE IF CompactTableRaises(t)
                  THEN c_pc' = "crashed" /\ c_tables' = c_tables
                  ELSE /\ c_pc' = c_pc
                       /\ c_tables' = c_tables \o CompactEntries(t, table_i, doc_i)
    /\ n_read' = n_read + 1
    /\ IF table_i + 1 < n_tables
       THEN /\ table_i' = table_i + 1
            /\ UNCHANGED <<pc, doc_i, n_tables>>
       ELSE NextDocument
    /\ UNCHANGED <<n_files, pdf_tables, all_tables, sorted_done, grid_vars, label_vars,
                   ddl_vars, m_files, write_vars, c_ranked>>

\* final_extraction.py lines 168, 33-35 and test.py lines 51, 25-26: there is
\* no PDF file
EquivNoPdf ==
    /\ pc = "pdf"
    /\ pdf_tables' = <<>>
    /\ pc' = "combine"
    /\ UNCHANGED <<n_files, doc_i, n_tables, table_i, n_read, docx_tables, all_tables,
                   sorted_done, grid_vars, label_vars, ddl_vars, m_files, write_vars,
                   equiv_vars>>

\* final_extraction.py lines 171-202, test.py lines 52-53
EquivRank ==
    /\ pc = "combine"
    /\ IF docx_tables \o pdf_tables = <<>>
       THEN all_tables' = <<>> /\ sorted_done' = FALSE
       ELSE all_tables' = SortByQuality(docx_tables \o pdf_tables) /\ sorted_done' = TRUE
    /\ pc' = "done"
    /\ IF c_pc = "running"
       THEN c_pc' = "returned" /\ c_ranked' = SortByQuality(c_tables)
       ELSE UNCHANGED <<c_pc, c_ranked>>
    /\ UNCHANGED <<n_files, doc_i, n_tables, table_i, n_read, docx_tables, pdf_tables,
                   grid_vars, label_vars, ddl_vars, m_files, write_vars, c_tables>>

NextEquiv ==
    \/ EquivListFiles
    \/ EquivOpen
    \/ EquivOpenRaises
    \/ EquivTable
    \/ EquivNoPdf
    \/ EquivRank

SpecEquiv == InitEquiv /\ [][NextEquiv]_vars

----------------------------------------------------------------------------
(* Column identifiers: clean_column_name of organize.py, lines 11-17 *)

LowerLetters ==
    <<"a", "b", "c", "d", "e", "f", "g", "h", "i", "j", "k", "l", "m",
      "n", "o", "p", "q", "r", "s", "t", "u", "v", "w", "x", "y", "z">>

UpperLetters ==
    <<"A", "B", "C", "D", "E", "F", "G", "H", "I", "J", "K", "L", "M",
      "N", "O", "P", "Q", "R", "S", "T", "U", "V", "W", "X", "Y", "Z">>

\* the feminine ordinal indicator, written by its code point: \w matches it,
\* str.islower() is true of it and str.upper() leaves it as it is
OrdinalIndicator == "U+00AA"

RangeOf(seq) == {seq[k] : k \in 1..Len(seq)}

\* the characters \w matches
IsWordChar(ch) ==
    ch \in RangeOf(LowerLetters) \cup RangeOf(UpperLetters) \cup RangeOf(Digits)
           \cup {"_", OrdinalIndicator}

\* a plausible bug: the underscore stripped with the punctuation
IsAlnumChar(ch) ==
    ch \in RangeOf(LowerLetters) \cup RangeOf(UpperLetters) \cup RangeOf(Digits)
           \cup {OrdinalIndicator}

\* str.islower() of one character
IsLowerChar(ch) == ch \in RangeOf(LowerLetters) \cup {OrdinalIndicator}

\* str.isdigit() of one character
IsDigitChar(ch) == ch \in RangeOf(Digits)

\* str.upper() of one character
UpperChar(ch) ==
    IF \E k \in 1..Len(LowerLetters) : LowerLetters[k] = ch
    THEN UpperLetters[CHOOSE k \in 1..Len(LowerLetters) : LowerLetters[k] = ch]
    ELSE ch

\* re.sub(r'\s+', new, s): every maximal run of whitespace becomes new
RECURSIVE SubWhitespaceRuns(_, _)
SubWhitespaceRuns(s, new) ==
    IF s = <<>> THEN <<>>
    ELSE IF IsSpace(Head(s))
         THEN new \o SubWhitespaceRuns(LStrip(s), new)
         ELSE <<Head(s)>> \o SubWhitespaceRuns(Tail(s), new)

\* line 12: re.sub(r'\s+', '_', str(col).strip())
CollapseToUnderscore(col) == SubWhitespaceRuns(Strip(col), <<"_">>)

StripNonAlnum(c) == SelectSeq(c, IsAlnumChar)

\* line 13: re.sub(r'[^\w]', '', c)
StripNonWord(c) == SelectSeq(c, IsWordChar)

\* line 14: c.upper()
UpperText(c) == [k \in 1..Len(c) |-> UpperChar(c[k])]

\* lines 15-17: the C_ prefix of a leading digit, COL for an empty result
PrefixOrPlaceholder(c) ==
    LET prefixed == IF c # <<>> /\ IsDigitChar(c[1]) THEN <<"C", "_">> \o c ELSE c
    IN  IF prefixed = <<>> THEN <<"C", "O", "L">> ELSE prefixed

\* lines 11-17
clean_column_name(col) ==
    PrefixOrPlaceholder(UpperText(StripNonWord(CollapseToUnderscore(col))))

\* the characters of the generated labels
LabelChars == {"a", "B", "1", "_", "-", " ", OrdinalIndicator}

\* "R-ACT-NO #1"
ExampleLabel == <<"R", "-", "A", "C", "T", "-", "N", "O", " ", "#", "1">>

Labels ==
    UNION { [1..n -> LabelChars] : n \in 0..MaxLabelLen } \cup {ExampleLabel}

InitLabel ==
    /\ PipeIdle
    /\ GridIdle
    /\ DdlIdle
    /\ WriteIdle
    /\ EquivIdle
    /\ l_pc = "raw"
    /\ l_label \in Labels
    /\ l_c = <<>>

\* line 12
LabelCollapse ==
    /\ l_pc = "raw"
    /\ l_c' = CollapseToUnderscore(l_label)
    /\ l_pc' = "collapsed"
    /\ UNCHANGED <<l_label, pipe_vars, grid_vars, ddl_vars,
                   m_files, write_vars, equiv_vars>>

\* line 13
LabelStripNonWord ==
    /\ l_pc = "collapsed"
    /\ l_c' = StripNonWord(l_c)
    /\ l_pc' = "stripped"
    /\ UNCHANGED <<l_label, pipe_vars, grid_vars, ddl_vars,
                   m_files, write_vars, equiv_vars>>

\* line 14
LabelUpper ==
    /\ l_pc = "stripped"
    /\ l_c' = UpperText(l_c)
    /\ l_pc' = "uppered"
    /\ UNCHANGED <<l_label, pipe_vars, grid_vars, ddl_vars,
                   m_files, write_vars, equiv_vars>>

\* lines 15-17
LabelReturn ==
    /\ l_pc = "uppered"
    /\ l_c' = PrefixOrPlaceholder(l_c)
    /\ l_pc' = "done"
    /\ UNCHANGED <<l_label, pipe_vars, grid_vars, ddl_vars,
                   m_files, write_vars, equiv_vars>>

NextLabel == LabelCollapse \/ LabelStripNonWord \/ LabelUpper \/ LabelReturn

SpecLabel == InitLabel /\ [][NextLabel]_vars

----------------------------------------------------------------------------
(* DDL of one table: extract_docx_tables_from_file, write_per_table_ddl and  *)
(* infer_sql_type of organize.py                                             *)

VarcharShort == 50
VarcharLong == 255

\* re.sub(r'\s+', ' ', s) without recursion: a whitespace character is kept,
\* as a space, when it is the first of its run
CollapseRuns(s) ==
    LET marked == [k \in 1..Len(s) |->
                      [ch |-> s[k], first |-> k = 1 \/ ~IsSpace(s[k - 1])]]
        kept == SelectSeq(marked, LAMBDA m : ~IsSpace(m.ch) \/ m.first)
    IN  [k \in 1..Len(kept) |-> IF IsSpace(kept[k].ch) THEN " " ELSE kept[k].ch]

\* line 44: re.sub(r'\s+', ' ', c.text.strip())
OrganizeCellText(text) == CollapseRuns(Strip(text))

\* line 42: max(len(r.cells) for r in tbl.rows), of a table that has a row
maxc(tbl) ==
    CHOOSE m \in {Len(tbl[r]) : r \in 1..Len(tbl)} :
        \A r \in 1..Len(tbl) : Len(tbl[r]) <= m

\* lines 43-46: the cleaned cells of each row, padded with "" to maxc
OrganizeRows(tbl) ==
    [r \in 1..Len(tbl) |->
        [c \in 1..maxc(tbl) |->
            IF c <= Len(tbl[r]) THEN OrganizeCellText(tbl[r][c]) ELSE <<>>]]

\* line 49: pd.DataFrame(rows[1:], columns=rows[0]); every cell is a str, and
\* a column of str has dtype object whatever the strings spell
OrganizeDataFrame(rows) ==
    [columns |-> rows[1],
     dtypes |-> [c \in 1..Len(rows[1]) |-> "object"],
     rows |-> Tail(rows)]

\* pd.isna of a cell: no str is NaN, the empty str included
IsNa(cell) == FALSE

\* the elements of seq at the positions in keep, from position k on
RECURSIVE KeepAt(_, _, _)
KeepAt(seq, keep, k) ==
    IF k > Len(seq) THEN <<>>
    ELSE (IF k \in keep THEN <<seq[k]>> ELSE <<>>) \o KeepAt(seq, keep, k + 1)

\* line 67: df.dropna(how="all", axis=1) drops the columns whose values are
\* all NaN
dropna_all_columns(df) ==
    LET keep == {c \in 1..Len(df.columns) :
                    ~(\A r \in 1..Len(df.rows) : IsNa(df.rows[r][c]))}
    IN  [columns |-> KeepAt(df.columns, keep, 1),
         dtypes |-> KeepAt(df.dtypes, keep, 1),
         rows |-> [r \in 1..Len(df.rows) |-> KeepAt(df.rows[r], keep, 1)]]

\* lines 64-67: the labels cleaned one by one, then dropna
CleanFrame(df) ==
    dropna_all_columns(
        [df EXCEPT !.columns = [c \in 1..Len(df.columns) |->
                                    clean_column_name(df.columns[c])]])

\* line 78: df[col] of a label that occurs once, by its position
Column(df, c) ==
    [dtype |-> df.dtypes[c],
     values |-> [r \in 1..Len(df.rows) |-> df.rows[r][c]]]

\* line 78: df[col] of a label that occurs more than once is a DataFrame
DuplicateLabels(df) ==
    \E j, k \in 1..Len(df.columns) : j < k /\ df.columns[j] = df.columns[k]

\* series.astype(str).str.len().max(), of a series that has a value
MaxStrLen(values) ==
    CHOOSE m \in {Len(values[r]) : r \in 1..Len(values)} :
        \A r \in 1..Len(values) : Len(values[r]) <= m

\* a plausible bug: the limits taken as exclusive
infer_sql_type_exclusive(series) ==
    IF series.dtype = "int64" THEN "INTEGER"
    ELSE IF series.dtype = "float64" THEN "DECIMAL(18,2)"
    ELSE IF series.dtype = "bool" THEN "BOOLEAN"
    ELSE IF series.dtype = "datetime64[ns]" THEN "TIMESTAMP"
    ELSE IF series.values = <<>> THEN "TEXT"
    ELSE IF MaxStrLen(series.values) < VarcharShort THEN "VARCHAR(50)"
    ELSE IF MaxStrLen(series.values) < VarcharLong THEN "VARCHAR(255)"
    ELSE "TEXT"

\* a variant: the empty strings left out of the sample, TEXT for no sample
infer_sql_type_skip_empty(series) ==
    LET sample == SelectSeq(series.values, LAMBDA v : v # <<>>)
    IN  IF series.dtype = "int64" THEN "INTEGER"
        ELSE IF series.dtype = "float64" THEN "DECIMAL(18,2)"
        ELSE IF series.dtype = "bool" THEN "BOOLEAN"
        ELSE IF series.dtype = "datetime64[ns]" THEN "TIMESTAMP"
        ELSE IF sample = <<>> THEN "TEXT"
        ELSE IF MaxStrLen(sample) <= VarcharShort THEN "VARCHAR(50)"
        ELSE IF MaxStrLen(sample) <= VarcharLong THEN "VARCHAR(255)"
        ELSE "TEXT"

\* lines 19-34; the max() of no value is NaN, and NaN <= n is False
infer_sql_type(series) ==
    IF series.dtype = "int64" THEN "INTEGER"
    ELSE IF series.dtype = "float64" THEN "DECIMAL(18,2)"
    ELSE IF series.dtype = "bool" THEN "BOOLEAN"
    ELSE IF series.dtype = "datetime64[ns]" THEN "TIMESTAMP"
    ELSE IF series.values = <<>> THEN "TEXT"
    ELSE IF MaxStrLen(series.values) <= VarcharShort THEN "VARCHAR(50)"
    ELSE IF MaxStrLen(series.values) <= VarcharLong THEN "VARCHAR(255)"
    ELSE "TEXT"

\* lines 76-79: col_ddls, as pairs of identifier and type
ColumnDdls(df) ==
    [c \in 1..Len(df.columns) |->
        [col |-> df.columns[c], sql_t |-> infer_sql_type(Column(df, c))]]

\* the cell texts of the generated tables: "", "30", "ab"
DdlCellTexts == { <<>>, <<"3", "0">>, <<"a", "b">> }

DdlRows == UNION { [1..n -> DdlCellTexts] : n \in 0..MaxRowLen }

Repeat(ch, n) == [k \in 1..n |-> ch]

\* a column of integer literals under the header " Age\n"
ExampleIntegerTable ==
    << << <<" ", "A", "g", "e", "\n">> >>,
       << <<"3", "0">> >>, << <<"2", "5">> >>, << <<"4", "0">> >> >>

\* columns whose longest values have 50, 51, 255 and 256 characters
ExampleWidthsTable ==
    << << <<"A">>, <<"B">>, <<"C">>, <<"D">> >>,
       << <<"x">>, <<>>, Repeat("x", VarcharLong), <<"x">> >>,
       << Repeat("x", VarcharShort), Repeat("x", VarcharShort + 1),
          <<"x">>, Repeat("x", VarcharLong + 1) >> >>

\* two labels with the same identifier: "R-ACT-NO #1" and "RACTNO_1"
ExampleCollisionTable ==
    << << ExampleLabel, <<"R", "A", "C", "T", "N", "O", "_", "1">> >>,
       << <<"a", "b">>, <<"3", "0">> >> >>

DdlTables ==
    UNION { [1..n -> DdlRows] : n \in 0..MaxRows }
        \cup {ExampleIntegerTable, ExampleWidthsTable, ExampleCollisionTable}

InitDdl ==
    /\ PipeIdle
    /\ GridIdle
    /\ LabelIdle
    /\ d_pc = "read"
    /\ d_raw \in DdlTables
    /\ d_df = NoFrame
    /\ d_ddl = <<>>
    /\ WriteIdle
    /\ EquivIdle

\* lines 40-50: max() of a table without rows raises ValueError; a table of
\* fewer than 2 rows is skipped; else the first row becomes the header
DdlExtract ==
    /\ d_pc = "read"
    /\ IF d_raw = <<>>
       THEN d_pc' = "value_error" /\ d_df' = d_df
       ELSE IF Len(OrganizeRows(d_raw)) < 2
            THEN d_pc' = "skipped" /\ d_df' = d_df
            ELSE d_pc' = "extracted" /\ d_df' = OrganizeDataFrame(OrganizeRows(d_raw))
    /\ UNCHANGED <<d_raw, d_ddl, pipe_vars, grid_vars, label_vars,
                   m_files, write_vars, equiv_vars>>

\* lines 62-69: the identifiers cleaned, dropna, a frame without columns left
DdlClean ==
    /\ d_pc = "extracted"
    /\ d_df' = CleanFrame(d_df)
    /\ d_pc' = IF Len(CleanFrame(d_df).columns) = 0 THEN "no_columns" ELSE "cleaned"
    /\ UNCHANGED <<d_raw, d_ddl, pipe_vars, grid_vars, label_vars,
                   m_files, write_vars, equiv_vars>>

\* lines 71-81: the file is opened and its two first lines written; df[col] of
\* a repeated label is a DataFrame, which has no .str (AttributeError, the
\* column lines never written); else the column lines are written
DdlWrite ==
    /\ d_pc = "cleaned"
    /\ IF DuplicateLabels(d_df)
       THEN d_pc' = "attribute_error" /\ d_ddl' = <<>>
       ELSE d_pc' = "written" /\ d_ddl' = ColumnDdls(d_df)
    /\ UNCHANGED <<d_raw, d_df, pipe_vars, grid_vars, label_vars,
                   m_files, write_vars, equiv_vars>>

NextDdl == DdlExtract \/ DdlClean \/ DdlWrite

SpecDdl == InitDdl /\ [][NextDdl]_vars

----------------------------------------------------------------------------
(* A run of main of organize.py: the directory is listed, each .docx file is *)
(* read, and write_per_table_ddl writes one .sql file per table              *)

\* str.lower() of one character
LowerChar(ch) ==
    IF \E k \in 1..Len(UpperLetters) : UpperLetters[k] = ch
    THEN LowerLetters[CHOOSE k \in 1..Len(UpperLetters) : UpperLetters[k] = ch]
    ELSE ch

LowerText(s) == [k \in 1..Len(s) |-> LowerChar(s[k])]

StartsWith(s, prefix) ==
    Len(s) >= Len(prefix) /\ SubSeq(s, 1, Len(prefix)) = prefix

EndsWith(s, suffix) ==
    Len(s) >= Len(suffix) /\ SubSeq(s, Len(s) - Len(suffix) + 1, Len(s)) = suffix

\* line 89: f.lower().endswith(".docx") and not f.startswith("~$")
IsDocxName(f) ==
    /\ EndsWith(LowerText(f), <<".", "d", "o", "c", "x">>)
    /\ ~StartsWith(f, <<"~", "$">>)

\* lines 86-90: the listed names that pass the filter, in listing order
DocxFiles(listing) == SelectSeq(listing, IsDocxName)

\* os.path.splitext(name)[0]: the name up to its last dot, when a character
\* other than a dot comes before that dot
SplitExtStem(name) ==
    LET dots == {k \in 1..Len(name) :
                    name[k] = "." /\ \E j \in 1..(k - 1) : name[j] # "."}
    IN  IF dots = {} THEN name
        ELSE SubSeq(name, 1, (CHOOSE k \in dots : \A j \in dots : j <= k) - 1)

\* a plausible bug: the base name not upper-cased
BaseKeepCase(filepath) == SplitExtStem(filepath)

\* line 58: os.path.splitext(os.path.basename(filepath))[0].upper(); a file
\* is named here by its basename, every file being in SOURCE_DIR
Base(filepath) == UpperText(SplitExtStem(filepath))

\* line 71: f"{base}_TABLE_{idx}"
TableName(base, idx) == base \o <<"_", "T", "A", "B", "L", "E", "_">> \o IntText(idx)

\* lines 59, 72: os.path.join(OUTPUT_DIR, base, tblname + ".sql"), as the pair
\* of the subfolder and the file name
OutputPath(base, tblname) == <<base, tblname \o <<".", "s", "q", "l">>>>

\* the names a source directory can hold
FileNames ==
    { <<"a", ".", "d", "o", "c", "x">>,
      <<"A", ".", "d", "o", "c", "x">>,
      <<"a", ".", "D", "O", "C", "X">>,
      <<"b", ".", "d", "o", "c", "x">>,
      <<"~", "$", "a", ".", "d", "o", "c", "x">>,
      <<"a", ".", "t", "x", "t">> }

\* os.listdir(SOURCE_DIR): distinct names, in any order
Listings ==
    UNION { {l \in [1..n -> FileNames] : \A j, k \in 1..n : j # k => l[j] # l[k]} :
            n \in 0..MaxListing }

\* the tables a source document can hold
DocTableLists ==
    LET T == << << <<"a", "b">>, <<"3", "0">> >>, << <<"x">>, <<>> >> >>
        S == << << <<"a", "b">> >> >>           \* a single row
        Z == << <<>>, <<>> >>                    \* two rows without cells
        N == << >>                               \* no row
    IN  { <<>>, <<T>>, <<S, T>>, <<T, T>>, <<Z, T>>, <<N, T>>,
          <<ExampleCollisionTable, T>> }

\* lines 38-51: the (idx, df) of the tables of two rows or more, idx from 1
RECURSIVE ExtractedFrom(_, _)
ExtractedFrom(tables, idx) ==
    IF idx > Len(tables) THEN <<>>
    ELSE (IF Len(tables[idx]) < 2 THEN <<>>
          ELSE << <<idx, OrganizeDataFrame(OrganizeRows(tables[idx]))>> >>)
         \o ExtractedFrom(tables, idx + 1)

InitWrite ==
    /\ PipeIdle
    /\ GridIdle
    /\ LabelIdle
    /\ DdlIdle
    /\ EquivIdle
    /\ m_files = <<>>
    /\ w_pc = "start"
    /\ w_listing \in Listings
    /\ w_docx_tables = <<>>
    /\ w_fi = 0
    /\ w_ti = 0
    /\ w_out = <<>>

\* lines 86-94: files is built; the loop over files starts, or with no file
\* write_per_table_ddl has nothing to write
WriteListFiles ==
    /\ w_pc = "start"
    /\ IF DocxFiles(w_listing) = <<>>
       THEN w_pc' = "done" /\ w_fi' = 0
       ELSE w_pc' = "extract" /\ w_fi' = 1
    /\ UNCHANGED <<w_listing, w_docx_tables, w_ti, w_out, m_files,
                   pipe_vars, grid_vars, label_vars, ddl_vars, equiv_vars>>

\* lines 94-97, 36-51: one file is read; max() of a table without rows raises
\* ValueError, which nothing catches; a file with no table of two rows or
\* more gets no entry in docx_tables
WriteExtractFile ==
    /\ w_pc = "extract"
    /\ \E tables \in DocTableLists :
          IF \E k \in 1..Len(tables) : tables[k] = <<>>
          THEN /\ w_pc' = "value_error"
               /\ UNCHANGED <<w_docx_tables, w_fi, w_ti>>
          ELSE /\ w_docx_tables' =
                     IF ExtractedFrom(tables, 1) = <<>> THEN w_docx_tables
                     ELSE Append(w_docx_tables,
                                 <<DocxFiles(w_listing)[w_fi], ExtractedFrom(tables, 1)>>)
               /\ IF w_fi < Len(DocxFiles(w_listing))
                  THEN w_fi' = w_fi + 1 /\ w_pc' = w_pc /\ w_ti' = w_ti
                  ELSE /\ w_fi' = 1
                       /\ w_ti' = 1
                       /\ w_pc' = IF w_docx_tables' = <<>> THEN "done" ELSE "write"
    /\ UNCHANGED <<w_listing, w_out, m_files,
                   pipe_vars, grid_vars, label_vars, ddl_vars, equiv_vars>>

\* lines 57-62: the loops over docx_tables.items() and over tables go on
WriteNextTable ==
    IF w_ti < Len(w_docx_tables[w_fi][2])
    THEN w_ti' = w_ti + 1 /\ w_fi' = w_fi /\ w_pc' = w_pc
    ELSE IF w_fi < Len(w_docx_tables)
         THEN w_ti' = 1 /\ w_fi' = w_fi + 1 /\ w_pc' = w_pc
         ELSE w_ti' = w_ti /\ w_fi' = w_fi /\ w_pc' = "done"

\* lines 62-82: one table of one file; a frame without columns is passed
\* over; else the file of the table is opened for writing and its two first
\* lines written, then the column lines, unless a repeated label makes
\* df[col] a DataFrame (AttributeError, which nothing catches)
WriteTable ==
    /\ w_pc = "write"
    /\ LET filepath == w_docx_tables[w_fi][1]
           idx == w_docx_tables[w_fi][2][w_ti][1]
           df == CleanFrame(w_docx_tables[w_fi][2][w_ti][2])
           base == Base(filepath)
           tblname == TableName(base, idx)
           written(cols, complete) ==
               [path |-> OutputPath(base, tblname),
                source |-> <<filepath, idx>>,
                tblname |-> tblname,
                text |-> [comment |-> <<filepath, idx>>, create |-> tblname,
                          cols |-> cols, complete |-> complete]]
       IN  IF Len(df.columns) = 0
           THEN w_out' = w_out /\ WriteNextTable
           ELSE IF DuplicateLabels(df)
                THEN /\ w_out' = Append(w_out, written(<<>>, FALSE))
                     /\ w_pc' = "attribute_error"
                     /\ UNCHANGED <<w_fi, w_ti>>
                ELSE /\ w_out' = Append(w_out, written(ColumnDdls(df), TRUE))
                     /\ WriteNextTable
    /\ UNCHANGED <<w_listing, w_docx_tables, m_files,
                   pipe_vars, grid_vars, label_vars, ddl_vars, equiv_vars>>

NextWrite == WriteListFiles \/ WriteExtractFile \/ WriteTable

SpecWrite == InitWrite /\ [][NextWrite]_vars

----------------------------------------------------------------------------
(* Claims on a run of extract_best_tables, under Spec *)

\* C1: the returned list is a permutation of the gathered candidates (none
\* lost, none duplicated, none altered) and its quality scores are
\* non-increasing from front to back.
C1_SortedPermutation ==
    (pc = "done") =>
        LET gathered == docx_tables \o pdf_tables
            Count(seq, x) == Cardinality({k \in 1..Len(seq) : seq[k] = x})
        IN  /\ Len(all_tables) = Len(gathered)
            /\ \A k \in 1..Len(gathered) :
                  Count(all_tables, gathered[k]) = Count(gathered, gathered[k])
            /\ \A k \in 1..(Len(all_tables) - 1) :
                  all_tables[k + 1][4][1] * all_tables[k][4][2]
                      <= all_tables[k][4][1] * all_tables[k + 1][4][2]

C1_Witness ==
    /\ pc = "done"
    /\ Len(docx_tables) >= 2
    /\ Len(pdf_tables) >= 1
    /\ all_tables # docx_tables \o pdf_tables
    /\ all_tables[1][1] = "pdf"
    /\ all_tables[Len(all_tables)][4] # all_tables[1][4]

\* C2: of two candidates with equal quality score, the one discovered first
\* (DOCX before PDF, an earlier document before a later one, an earlier table
\* of the same document before a later one) comes first in the ranked list.
C2_StableRanking ==
    (pc = "done") =>
        \A j \in 1..Len(all_tables) : \A k \in 1..Len(all_tables) :
            LET a == all_tables[j]
                b == all_tables[k]
                DiscoveredBefore ==
                    \/ a[1] = "docx" /\ b[1] = "pdf"
                    \/ a[1] = "docx" /\ b[1] = "docx" /\ a[5] < b[5]
                    \/ a[1] = "docx" /\ b[1] = "docx" /\ a[5] = b[5] /\ a[2] < b[2]
                    \/ a[1] = "pdf" /\ b[1] = "pdf" /\ a[2] < b[2]
            IN  (a[4] = b[4] /\ DiscoveredBefore) => j < k

\* two documents with one table of the same score each, and a PDF table of
\* that score, behind a better PDF table discovered last
C2_Witness ==
    /\ pc = "done"
    /\ Len(all_tables) = 4
    /\ all_tables[1][1] = "pdf" /\ all_tables[1][2] = 1
    /\ all_tables[2][1] = "docx" /\ all_tables[2][5] = 1
    /\ all_tables[3][1] = "docx" /\ all_tables[3][5] = 2
    /\ all_tables[4][1] = "pdf" /\ all_tables[4][2] = 0
    /\ all_tables[2][4] = all_tables[3][4]
    /\ all_tables[3][4] = all_tables[4][4]
    /\ all_tables[1][4] # all_tables[2][4]

\* C4: the quality score of every candidate, gathered or ranked, lies in
\* [0, 100].
C4_ScoreInRange ==
    \A seq \in {docx_tables, pdf_tables, all_tables} :
        \A k \in 1..Len(seq) :
            /\ seq[k][4][2] > 0
            /\ 0 <= seq[k][4][1]
            /\ seq[k][4][1] <= 100 * seq[k][4][2]

C4_Witness ==
    /\ pc = "done"
    /\ \E k \in 1..Len(all_tables) :
          all_tables[k][1] = "docx" /\ all_tables[k][4] = <<92, 1>>
    /\ \E k \in 1..Len(all_tables) :
          all_tables[k][1] = "docx" /\ all_tables[k][4] = <<0, 1>>
    /\ \E k \in 1..Len(all_tables) :
          all_tables[k][1] = "pdf" /\ all_tables[k][4] = <<100, 1>>

----------------------------------------------------------------------------
(* Claims on one table, under SpecGrid *)

GridScored == g_pc \in {"scored", "done"}

C5_FullGridScores100 ==
    (/\ GridScored
     /\ g_cand # <<>>
     /\ Len(g_data[1]) >= 2
     /\ \A r \in 1..Len(g_data) : \A c \in 1..Len(g_data[r]) : g_data[r][c] # <<>>)
    => g_cand[1][4] = <<100, 1>>

\* C5 amended: a grid whose every cell is non-empty and whose width is >= 2
\* scores exactly 92 (60 + 30 + 2).
C5_FullGridScores92 ==
    (/\ GridScored
     /\ g_cand # <<>>
     /\ Len(g_data[1]) >= 2
     /\ \A r \in 1..Len(g_data) : \A c \in 1..Len(g_data[r]) : g_data[r][c] # <<>>)
    => g_cand[1][4] = <<92, 1>>

C5_Witness ==
    /\ GridScored
    /\ g_cand # <<>>
    /\ Len(g_data[1]) >= 2
    /\ \A r \in 1..Len(g_data) : \A c \in 1..Len(g_data[r]) : g_data[r][c] # <<>>
    /\ g_cand[1][4] = <<92, 1>>

C7_Rectangular ==
    (g_pc # "read" /\ Len(g_raw) >= 1) =>
        /\ Len(g_data) = Len(g_raw)
        /\ \E widest \in 1..Len(g_raw) :
              /\ \A r \in 1..Len(g_raw) : Len(g_raw[r]) <= Len(g_raw[widest])
              /\ \A r \in 1..Len(g_data) : Len(g_data[r]) = Len(g_raw[widest])
        /\ \A r \in 1..Len(g_raw) :
              /\ Len(g_data[r]) >= Len(g_raw[r])
              /\ \A c \in 1..Len(g_data[r]) :
                    g_data[r][c] = IF c <= Len(g_raw[r])
                                   THEN CleanCellText(g_raw[r][c])
                                   ELSE <<>>

C7_Witness ==
    /\ g_pc = "extracted"
    /\ Len(g_raw) = 2
    /\ Len(g_raw[1]) = 1
    /\ Len(g_raw[2]) = 2
    /\ g_data[1][2] = <<>>
    /\ g_data[2][2] # <<>>

\* C8: extracting the data of an already extracted table (pad to the widest
\* row, strip each cell, collapse every whitespace run) yields the same data,
\* cell for cell.
C8_Idempotent == (g_pc = "done") => (g_again = g_data)

C8_Witness ==
    /\ g_pc = "done"
    /\ Len(g_raw) = 2
    /\ Len(g_raw[1]) = 1
    /\ Len(g_raw[2]) = 2
    /\ g_raw[2][2] = <<" ", "x", " ", "\n", " ", "y", "\t">>
    /\ g_data[2][2] = <<"x", " ", "y">>
    /\ g_again = g_data

\* C9: for every extracted grid with >= 2 rows whose first row holds a
\* non-empty cell, the columns are the first row's cells in order and the data
\* rows are the remaining rows in order (n rows give n-1 data rows).
C9_HeaderPromoted ==
    (/\ GridScored
     /\ Len(g_data) >= 2
     /\ \E c \in 1..Len(g_data[1]) : g_data[1][c] # <<>>)
    => /\ g_cand # <<>>
       /\ LET df == g_cand[1][3].df
          IN  /\ Len(df.columns) = Len(g_data[1])
              /\ \A c \in 1..Len(g_data[1]) :
                    df.columns[c] = [is_int |-> FALSE, text |-> g_data[1][c]]
              /\ Len(df.rows) = Len(g_data) - 1
              /\ \A r \in 1..(Len(g_data) - 1) : df.rows[r] = g_data[r + 1]

\* [["Name","Age"],["Alice","30"],["Bob","25"]] gives columns Name, Age and 2 rows
C9_Witness ==
    /\ GridScored
    /\ g_raw = ExampleHeaderTable
    /\ g_cand # <<>>
    /\ g_cand[1][3].df.columns =
          << [is_int |-> FALSE, text |-> <<"N","a","m","e">>],
             [is_int |-> FALSE, text |-> <<"A","g","e">>] >>
    /\ Len(g_cand[1][3].df.rows) = 2

----------------------------------------------------------------------------
(* Claims on clean_column_name, under SpecLabel *)

\* C13: for every raw label, clean_column_name returns a non-empty identifier
\* made only of letters, digits and underscores, with no lowercase letter and
\* no leading digit.
C13_SafeIdentifier ==
    (l_pc = "done") =>
        /\ l_c # <<>>
        /\ \A k \in 1..Len(l_c) :
              /\ l_c[k] \in RangeOf(LowerLetters) \cup RangeOf(UpperLetters)
                            \cup RangeOf(Digits) \cup {"_", OrdinalIndicator}
              /\ ~IsLowerChar(l_c[k])
        /\ l_c[1] \notin RangeOf(Digits)

\* C14 as stated: "R-ACT-NO #1" gives "R-ACT-NO_#1" after the whitespace
\* collapse, "RACTNO1" after the strip of non-word characters, and "RACTNO1".
C14_ExampleGivesRACTNO1 ==
    (l_label = ExampleLabel) =>
        /\ (l_pc = "collapsed") =>
              l_c = <<"R", "-", "A", "C", "T", "-", "N", "O", "_", "#", "1">>
        /\ (l_pc \in {"stripped", "uppered", "done"}) =>
              l_c = <<"R", "A", "C", "T", "N", "O", "1">>

\* C14 amended: "R-ACT-NO #1" gives "R-ACT-NO_#1" after the whitespace
\* collapse, "RACTNO_1" after the strip of non-word characters (the underscore
\* is a word character), and "RACTNO_1".
C14_ExampleGivesRACTNO_1 ==
    (l_label = ExampleLabel) =>
        /\ (l_pc = "collapsed") =>
              l_c = <<"R", "-", "A", "C", "T", "-", "N", "O", "_", "#", "1">>
        /\ (l_pc \in {"stripped", "uppered", "done"}) =>
              l_c = <<"R", "A", "C", "T", "N", "O", "_", "1">>

C14_Witness ==
    /\ l_label = ExampleLabel
    /\ l_pc = "done"
    /\ l_c = <<"R", "A", "C", "T", "N", "O", "_", "1">>

----------------------------------------------------------------------------
(* Claims on the DDL of one table, under SpecDdl *)

\* the table passed line 69 and the file of its DDL was opened
ReachedEmitter == d_pc \in {"written", "attribute_error"}

\* the data-row values of column c of df
ValuesOf(c) == [r \in 1..Len(d_df.rows) |-> d_df.rows[r][c]]

AllEmpty(values) == \A r \in 1..Len(values) : values[r] = <<>>

\* a base-10 integer literal: one digit or more
IsIntegerLiteral(v) == v # <<>> /\ \A k \in 1..Len(v) : v[k] \in RangeOf(Digits)

\* the length of the longest of the values
LongestSample(values) ==
    CHOOSE m \in {Len(values[r]) : r \in 1..Len(values)} :
        \A r \in 1..Len(values) : Len(values[r]) <= m

\* C12: no table that reaches the DDL emitter has two columns with the same
\* identifier (colliding labels would have received the suffixes _2, _3, ...).
C12_UniqueIdentifiers ==
    ReachedEmitter =>
        \A j, k \in 1..Len(d_df.columns) :
            j # k => d_df.columns[j] # d_df.columns[k]

\* C15: a column whose non-empty data-row values all parse as base-10 integer
\* literals has the inferred type INTEGER.
C15_IntegerColumn ==
    (d_pc = "written") =>
        \A c \in 1..Len(d_ddl) :
            (/\ ~AllEmpty(ValuesOf(c))
             /\ \A r \in 1..Len(d_df.rows) :
                   ValuesOf(c)[r] # <<>> => IsIntegerLiteral(ValuesOf(c)[r]))
            => d_ddl[c].sql_t = "INTEGER"

\* C16: a column in the textual case has the type VARCHAR(50) when its longest
\* sample has at most 50 characters, VARCHAR(255) when it has 51 to 255, and
\* TEXT when it has more than 255.
C16_TextualWidth ==
    (d_pc = "written") =>
        \A c \in 1..Len(d_ddl) :
            (/\ d_ddl[c].sql_t \notin {"INTEGER", "DECIMAL(18,2)", "BOOLEAN", "TIMESTAMP"}
             /\ ~AllEmpty(ValuesOf(c)))
            => LET longest == LongestSample(ValuesOf(c))
               IN  /\ (longest <= 50) => d_ddl[c].sql_t = "VARCHAR(50)"
                   /\ (longest >= 51 /\ longest <= 255) => d_ddl[c].sql_t = "VARCHAR(255)"
                   /\ (longest >= 256) => d_ddl[c].sql_t = "TEXT"

C16_Witness ==
    /\ d_pc = "written"
    /\ d_raw = ExampleWidthsTable
    /\ LongestSample(ValuesOf(1)) = 50 /\ d_ddl[1].sql_t = "VARCHAR(50)"
    /\ LongestSample(ValuesOf(2)) = 51 /\ d_ddl[2].sql_t = "VARCHAR(255)"
    /\ LongestSample(ValuesOf(3)) = 255 /\ d_ddl[3].sql_t = "VARCHAR(255)"
    /\ LongestSample(ValuesOf(4)) = 256 /\ d_ddl[4].sql_t = "TEXT"

C18_EmptyColumnsElided ==
    /\ (d_pc = "written") =>
          \A c \in 1..Len(d_ddl) : ~AllEmpty(ValuesOf(c))
    /\ ReachedEmitter => Len(d_df.columns) > 0

----------------------------------------------------------------------------
(* Claims on failures, under SpecCompact and Spec *)

\* C19: a failure on one document (the parser raises on opening or reading
\* it, the PDF backend is missing or raises) never ends the run in an error:
\* the run goes on to the other documents and to the ranking.
C19_FailureIsNotFatal ==
    /\ pc # "crashed"
    /\ (pc = "done") => Len(all_tables) = Len(docx_tables) + Len(pdf_tables)

\* C20: a table that is skipped or whose processing raises is not fatal: the
\* next table of the same document is processed after it.
C20_LaterTablesProcessed ==
    [][(pc = "tables" /\ table_i + 1 < n_tables)
          => (pc' = "tables" /\ doc_i' = doc_i /\ table_i' = table_i + 1)]_vars

----------------------------------------------------------------------------
(* Claims on the order of a run, under Spec *)

\* C22: the ranking sort happens only once every DOCX document and the PDF
\* document have been gone through, and the candidate lists never change
\* after the ranking.
C22_MergeBarrier ==
    [][/\ (all_tables' # all_tables \/ (sorted_done' /\ ~sorted_done))
             => (pc = "combine" /\ doc_i = n_files)
       /\ (pc' = "combine" /\ pc # "combine") => pc = "pdf"
       /\ (pc \in {"done", "tables_written", "finished"})
             => UNCHANGED <<all_tables, docx_tables, pdf_tables, sorted_done>>]_vars

C22_Witness ==
    /\ pc = "done"
    /\ sorted_done
    /\ n_files = 2
    /\ doc_i = n_files
    /\ docx_tables # <<>>
    /\ pdf_tables # <<>>
    /\ Len(all_tables) = Len(docx_tables) + Len(pdf_tables)

\* C23: the score of a DOCX candidate never exceeds 92, a PDF candidate
\* carries the accuracy of its table unchanged, and in a ranked list a PDF
\* candidate of accuracy above 92 precedes every DOCX candidate.
C23_PdfAbove92First ==
    /\ \A k \in 1..Len(docx_tables) : RatLeq(docx_tables[k][4], <<92, 1>>)
    /\ \A k \in 1..Len(pdf_tables) : pdf_tables[k][4] = pdf_tables[k][3].accuracy
    /\ (pc = "done") =>
          \A j, k \in 1..Len(all_tables) :
              (/\ all_tables[j][1] = "pdf"
               /\ RatLt(<<92, 1>>, all_tables[j][4])
               /\ all_tables[k][1] = "docx") => j < k

C23_Witness ==
    /\ pc = "done"
    /\ \E j, k \in 1..Len(all_tables) :
          /\ j < k
          /\ all_tables[j][1] = "pdf" /\ all_tables[j][4] = <<100, 1>>
          /\ all_tables[k][1] = "docx" /\ all_tables[k][4] = <<92, 1>>
          /\ \E m \in 1..Len(docx_tables) : docx_tables[m] = all_tables[k]

----------------------------------------------------------------------------
(* Claims on the files main writes, under Spec *)

----------------------------------------------------------------------------
(* Claims on the two pipelines side by side, under SpecEquiv *)

\* C25: on the same .docx documents, test.py and final_extraction.py both
\* return, and return the same ranked sequence of (source kind, ordinal
\* index, quality score, file name).
C25_PipelinesEquivalent ==
    /\ c_pc # "crashed"
    /\ (pc = "done") => (c_pc = "returned" /\ Ranking(c_ranked) = Ranking(all_tables))

----------------------------------------------------------------------------
(* Claims on the files write_per_table_ddl writes, under SpecWrite *)

\* the frame docx_tables holds for table idx of file filepath
FrameOf(filepath, idx) ==
    LET fi == CHOOSE k \in 1..Len(w_docx_tables) : w_docx_tables[k][1] = filepath
        ti == CHOOSE k \in 1..Len(w_docx_tables[fi][2]) :
                  w_docx_tables[fi][2][k][1] = idx
    IN  w_docx_tables[fi][2][ti][2]

\* what is written depends on the file name, the index and the frame only
TextIsFunctionOfInputs(e) ==
    /\ e.text.comment = e.source
    /\ e.text.create = e.tblname
    /\ e.path = <<UpperText(SplitExtStem(e.source[1])), e.tblname \o <<".", "s", "q", "l">>>>
    /\ e.text.complete =>
          e.text.cols = ColumnDdls(CleanFrame(FrameOf(e.source[1], e.source[2])))

C26_NoOverwrite ==
    \A j, k \in 1..Len(w_out) :
        (j # k /\ w_out[j].source # w_out[k].source)
            => (w_out[j].tblname # w_out[k].tblname /\ w_out[j].path # w_out[k].path)

====
